---------------------------- MODULE Spec2Model ----------------------------
(***************************************************************************)
(* A model of the vec2 class (src/vec2.js): a mutable 2D vector whose      *)
(* methods mutate the receiver and return it, two static angle queries     *)
(* and five static constant instances.                                     *)
(*                                                                         *)
(* Objects live in a heap indexed by identity, so that aliasing (an        *)
(* operand that is the receiver, a static constant used as a receiver) is  *)
(* part of the model.                                                      *)
(*                                                                         *)
(* JavaScript numbers are modelled as exact reals of the form              *)
(* (n/d) * sqrt(r), r square-free, together with the IEEE specials NaN,    *)
(* +Infinity and -Infinity and the angles acos(c) and 2*PI - acos(c).      *)
(* On the small integer components used as inputs the IEEE operations      *)
(* + - * are exact; the rounding of / , Math.sqrt and the trigonometric    *)
(* functions, and the sign of zero, are not modelled.  A result outside    *)
(* this set of reals has kind "unrep"; the actions are guarded so that no  *)
(* such value is stored or returned.                                       *)
(***************************************************************************)
EXTENDS Integers, Sequences, FiniteSets

(***************************************************************************)
(* Bounds of the model.                                                    *)
(***************************************************************************)
MaxCoord == 2
MaxCalls == 2
MaxNum   == 25

(***************************************************************************)
(* Numbers.                                                                *)
(***************************************************************************)
RECURSIVE Gcd(_, _)
Gcd(a, b) == IF b = 0 THEN a ELSE Gcd(b, a % b)

AbsInt(i) == IF i < 0 THEN -i ELSE i

\* the largest s in lo..hi with s*s <= m
RECURSIVE IsqrtIn(_, _, _)
IsqrtIn(m, lo, hi) ==
    IF lo >= hi THEN lo
    ELSE LET mid == (lo + hi + 1) \div 2
         IN  IF mid * mid <= m THEN IsqrtIn(m, mid, hi) ELSE IsqrtIn(m, lo, mid - 1)

\* the integer square root of m (m >= 0 within 32 bits)
Isqrt(m) == IsqrtIn(m, 0, IF m < 46340 THEN m ELSE 46340)

\* the largest s with s*s dividing m (m > 0)
SquarePart(m) ==
    LET c == {s \in 1..Isqrt(m) : m % (s * s) = 0}
    IN  CHOOSE s \in c : \A t \in c : t <= s

NaN  == [k |-> "nan",  n |-> 0, d |-> 1, r |-> 1]
PInf == [k |-> "pinf", n |-> 0, d |-> 1, r |-> 1]
NInf == [k |-> "ninf", n |-> 0, d |-> 1, r |-> 1]
Unrep == [k |-> "unrep", n |-> 0, d |-> 1, r |-> 1]

\* the real (n/d)*sqrt(r) in lowest terms, for d > 0 and r > 0
Fin(n, d, r) ==
    IF n = 0 THEN [k |-> "fin", n |-> 0, d |-> 1, r |-> 1]
    ELSE LET s  == SquarePart(r)
             n1 == n * s
             g  == Gcd(AbsInt(n1), d)
         IN  [k |-> "fin", n |-> n1 \div g, d |-> d \div g, r |-> r \div (s * s)]

OfInt(i) == Fin(i, 1, 1)
Zero == OfInt(0)
One  == OfInt(1)

IsFin(a) == a.k = "fin"
IsInf(a) == a.k \in {"pinf", "ninf"}
IsRad(a) == a.k \in {"acos", "rev"}

\* the sign of a: -1, 0 or 1 (0 for NaN)
Sign(a) ==
    CASE a.k = "fin"  -> (IF a.n < 0 THEN -1 ELSE IF a.n > 0 THEN 1 ELSE 0)
      [] a.k = "pinf" -> 1
      [] a.k = "ninf" -> -1
      [] a.k = "rev"  -> 1
      [] a.k = "acos" -> 1
      [] OTHER        -> 0

InfOf(s) == IF s < 0 THEN NInf ELSE PInf

\* unary minus
Neg(a) ==
    CASE a.k = "fin"  -> [a EXCEPT !.n = -a.n]
      [] a.k = "pinf" -> NInf
      [] a.k = "ninf" -> PInf
      [] a.k = "nan"  -> NaN
      [] OTHER        -> Unrep

\* a + b
Add(a, b) ==
    CASE a.k = "unrep" \/ b.k = "unrep" -> Unrep
      [] a.k = "nan" \/ b.k = "nan" -> NaN
      [] IsRad(a) \/ IsRad(b) -> Unrep
      [] IsInf(a) /\ IsInf(b) -> (IF a.k = b.k THEN a ELSE NaN)
      [] IsInf(a) -> a
      [] IsInf(b) -> b
      [] a.n = 0 -> b
      [] b.n = 0 -> a
      [] a.r = b.r -> Fin(a.n * b.d + b.n * a.d, a.d * b.d, a.r)
      [] OTHER -> Unrep

\* a - b
Sub(a, b) == Add(a, Neg(b))

\* a * b
Mul(a, b) ==
    CASE a.k = "unrep" \/ b.k = "unrep" -> Unrep
      [] a.k = "nan" \/ b.k = "nan" -> NaN
      [] IsRad(a) \/ IsRad(b) -> Unrep
      [] IsInf(a) \/ IsInf(b) ->
            (IF Sign(a) = 0 \/ Sign(b) = 0 THEN NaN ELSE InfOf(Sign(a) * Sign(b)))
      [] OTHER -> Fin(a.n * b.n * Gcd(a.r, b.r), a.d * b.d,
                      (a.r \div Gcd(a.r, b.r)) * (b.r \div Gcd(a.r, b.r)))

\* a / b
Div(a, b) ==
    CASE a.k = "unrep" \/ b.k = "unrep" -> Unrep
      [] a.k = "nan" \/ b.k = "nan" -> NaN
      [] IsRad(a) \/ IsRad(b) -> Unrep
      [] IsInf(b) -> (IF IsInf(a) THEN NaN ELSE Zero)
      [] IsInf(a) -> InfOf(Sign(a) * (IF Sign(b) < 0 THEN -1 ELSE 1))
      [] b.n = 0 -> (IF a.n = 0 THEN NaN ELSE InfOf(Sign(a)))
      [] OTHER ->
            \* 1/((n/d) sqrt r) = (d/(n r)) sqrt r
            Mul(a, Fin((IF b.n < 0 THEN -1 ELSE 1) * b.d, AbsInt(b.n) * b.r, b.r))

\* Math.sqrt(a)
Sqrt(a) ==
    CASE a.k = "unrep" -> Unrep
      [] a.k = "nan" -> NaN
      [] a.k = "pinf" -> PInf
      [] a.k = "ninf" -> NaN
      [] IsRad(a) -> Unrep
      [] a.n < 0 -> NaN
      [] a.n = 0 -> Zero
      [] a.r = 1 -> Fin(1, a.d, a.n * a.d)
      [] OTHER -> Unrep

\* a == b (NaN equals nothing)
NumEq(a, b) == a.k # "nan" /\ b.k # "nan" /\ a = b

\* a < 0
IsNegative(a) == Sign(a) < 0 /\ a.k \in {"fin", "ninf"}

\* the square of a finite a compared with 1: -1, 0 or 1 as |a| < 1, = 1, > 1
AbsVsOne(a) ==
    LET lhs == a.n * a.n * a.r
        rhs == a.d * a.d
    IN  IF lhs < rhs THEN -1 ELSE IF lhs = rhs THEN 0 ELSE 1

\* Math.pow(b, e) for the exponents the model uses: 0, 1/2, 1, 2, Infinity
Pow(b, e) ==
    CASE b.k = "unrep" \/ e.k = "unrep" -> Unrep
      [] e = Zero -> One
      [] e.k = "nan" \/ b.k = "nan" -> NaN
      [] e = One -> b
      [] e = OfInt(2) -> Mul(b, b)
      [] e = Fin(1, 2, 1) -> (IF b.k = "ninf" THEN PInf ELSE Sqrt(b))
      [] e.k = "pinf" ->
            (IF IsInf(b) THEN PInf
             ELSE IF ~IsFin(b) THEN Unrep
             ELSE IF AbsVsOne(b) > 0 THEN PInf
             ELSE IF AbsVsOne(b) < 0 THEN Zero
             ELSE NaN)
      [] OTHER -> Unrep

\* Math.acos(c): an angle in [0, PI], NaN outside [-1, 1]
Acos(c) ==
    CASE c.k = "unrep" -> Unrep
      [] c.k = "nan" \/ IsInf(c) -> NaN
      [] IsRad(c) -> Unrep
      [] AbsVsOne(c) > 0 -> NaN
      [] c = One -> Zero
      [] OTHER -> [c EXCEPT !.k = "acos"]

\* 2 * Math.PI - a, for a an angle in [0, PI]
TwoPiMinus(a) ==
    CASE a.k = "nan" -> NaN
      [] a = Zero -> [One EXCEPT !.k = "rev"]
      [] a.k = "acos" -> [a EXCEPT !.k = "rev"]
      [] OTHER -> Unrep

\* Math.cos(a)
Cos(a) ==
    CASE a.k = "nan" \/ IsInf(a) -> NaN
      [] a = Zero -> One
      [] IsRad(a) -> [a EXCEPT !.k = "fin"]
      [] OTHER -> Unrep

\* Math.sin(a)
Sin(a) ==
    CASE a.k = "nan" \/ IsInf(a) -> NaN
      [] a = Zero -> Zero
      [] a.k = "acos" -> Sqrt(Sub(One, Mul(Cos(a), Cos(a))))
      [] a.k = "rev"  -> Neg(Sqrt(Sub(One, Mul(Cos(a), Cos(a)))))
      [] OTHER -> Unrep

HalfPi == Acos(Zero)
Pi     == Acos(OfInt(-1))
ThreeHalfPi == TwoPiMinus(HalfPi)
TwoPi  == TwoPiMinus(Zero)

(***************************************************************************)
(* Objects.  The heap maps the identity of each live vec2 instance to its  *)
(* fields.  An operand of a method is a reference to a live instance or a  *)
(* plain {x, y} object; NoArg is an omitted argument.                      *)
(***************************************************************************)
Statics == {"ORIGIN", "RIGHT", "LEFT", "TOP", "DOWN"}
Users   == {"v", "w"}
Clones  == {"c"}

Vec(x, y) == [x |-> x, y |-> y]
IntVec(i, j) == Vec(OfInt(i), OfInt(j))

Ref(id)   == [k |-> "ref", id |-> id, x |-> Zero, y |-> Zero]
Lit(x, y) == [k |-> "lit", id |-> "", x |-> x, y |-> y]
NoArg     == [k |-> "none", id |-> "", x |-> Zero, y |-> Zero]

\* the { x, y } a method destructures from its operand
Fields(h, arg) == IF arg.k = "ref" THEN h[arg.id] ELSE Vec(arg.x, arg.y)

\* the static fields of the class, as the class definition initialises them
StaticInit(o) ==
    CASE o = "ORIGIN" -> IntVec(0, 0)
      [] o = "RIGHT"  -> IntVec(1, 0)
      [] o = "LEFT"   -> IntVec(-1, 0)
      [] o = "TOP"    -> IntVec(0, 1)
      [] o = "DOWN"   -> IntVec(0, -1)

(***************************************************************************)
(* The methods of the class.  A mutating method is the heap it leaves      *)
(* (it returns this); a query is the number it returns.                    *)
(***************************************************************************)
set(h, o, x, y) == [h EXCEPT ![o] = Vec(x, y)]

translate(h, o, x, y) == [h EXCEPT ![o] = Vec(Add(h[o].x, x), Add(h[o].y, y))]

magSq(h, o) == Add(Mul(h[o].x, h[o].x), Mul(h[o].y, h[o].y))

mag(h, o) == Sqrt(magSq(h, o))

scale(h, o, val) == [h EXCEPT ![o] = Vec(Mul(h[o].x, val), Mul(h[o].y, val))]

\* normalize without the test for a zero magnitude
normalize_unguarded(h, o) == scale(h, o, Div(One, mag(h, o)))

normalize(h, o) ==
    LET m == mag(h, o)
    IN  IF NumEq(m, Zero) THEN h ELSE scale(h, o, Div(One, m))

copy(h, o, arg) == set(h, o, Fields(h, arg).x, Fields(h, arg).y)

\* the constructor: a new instance at the fresh identity id
new(h, id, x, y) ==
    [i \in DOMAIN h \cup {id} |-> IF i = id THEN Vec(x, y) ELSE h[i]]

\* clone returning the receiver itself
clone_returning_this(h, o, id) == [heap |-> h, ref |-> o]

\* new vec2(this.x, this.y): the heap it leaves and the instance it returns
clone(h, o, id) == [heap |-> new(h, id, h[o].x, h[o].y), ref |-> id]

\* sub without the negation
sub_not_negated(h, o, arg) == translate(h, o, Fields(h, arg).x, Fields(h, arg).y)

sub(h, o, arg) == translate(h, o, Neg(Fields(h, arg).x), Neg(Fields(h, arg).y))

add(h, o, arg) == translate(h, o, Fields(h, arg).x, Fields(h, arg).y)

dot(h, o, arg) ==
    Add(Mul(h[o].x, Fields(h, arg).x), Mul(h[o].y, Fields(h, arg).y))

cross(h, o, arg) ==
    Sub(Mul(h[o].x, Fields(h, arg).y), Mul(Fields(h, arg).x, h[o].y))

setMag(h, o, m) == scale(normalize(h, o), o, m)

\* setDirection normalising the direction operand in place
setDirection_writing_dir(h, o, dir) ==
    LET m  == dot(h, o, dir)
        h1 == IF dir.k = "ref" THEN normalize(h, dir.id) ELSE h
    IN  scale(copy(h1, o, dir), o, m)

setDirection(h, o, dir) ==
    LET m == dot(h, o, dir)
    IN  setMag(copy(h, o, dir), o, m)

rotateAround(h, o, a, arg) ==
    LET f   == IF arg = NoArg THEN h["ORIGIN"] ELSE Fields(h, arg)
        sin == Sin(a)
        cos == Cos(a)
        tx  == Sub(h[o].x, f.x)
        ty  == Sub(h[o].y, f.y)
    IN  set(h, o, Add(Sub(Mul(tx, cos), Mul(ty, sin)), f.x),
                  Add(Add(Mul(tx, sin), Mul(ty, cos)), f.y))

norm(h, o, p) == Pow(Add(Pow(h[o].x, p), Pow(h[o].y, p)), Div(One, p))

\* angle returning 0 when an operand has zero magnitude
angle_guarded(h, v1, v2) ==
    IF NumEq(magSq(h, v1), Zero) \/ NumEq(magSq(h, v2), Zero) THEN Zero
    ELSE Acos(Div(dot(h, v1, Ref(v2)), Sqrt(Mul(magSq(h, v1), magSq(h, v2)))))

angle(h, v1, v2) ==
    Acos(Div(dot(h, v1, Ref(v2)), Sqrt(Mul(magSq(h, v1), magSq(h, v2)))))

\* angle2 reflecting when the cross product is not positive
angle2_reflecting_on_zero(h, v1, v2) ==
    LET a    == angle(h, v1, v2)
        sign == cross(h, v1, Ref(v2))
    IN  IF Sign(sign) <= 0 THEN TwoPiMinus(a) ELSE a

angle2(h, v1, v2) ==
    LET a    == angle(h, v1, v2)
        sign == cross(h, v1, Ref(v2))
    IN  IF IsNegative(sign) THEN TwoPiMinus(a) ELSE a

\* the methods class vec2 defines
Methods == {"set", "translate", "magSq", "mag", "scale", "normalize", "copy",
            "clone", "sub", "add", "dot", "cross", "setMag", "setDirection",
            "rotateAround", "norm"}

(***************************************************************************)
(* State: the heap, the log of the calls the client has made, each with    *)
(* the heap before and after it and what it returned or threw, and the     *)
(* number of calls the client may still make.                              *)
(***************************************************************************)
VARIABLES heap, log, left

vars == <<heap, log, left>>

RefRet(id)  == [k |-> "ref", id |-> id, v |-> Zero]
NumRet(v)   == [k |-> "num", id |-> "", v |-> v]
Throw(e)    == [k |-> "throw", id |-> e, v |-> Zero]

Live == DOMAIN heap

\* a is a number of the model: one it represents, of bounded size
Small(a) == a.k # "unrep" /\ AbsInt(a.n) <= MaxNum /\ a.d <= MaxNum /\ a.r <= MaxNum

\* every field of every object of h is a number of the model
InModel(h) == \A o \in DOMAIN h : Small(h[o].x) /\ Small(h[o].y)

\* the call op on receiver self leaves heap h2 and returns (or throws) ret
Call(op, self, arg, num, h2, ret) ==
    /\ left > 0
    /\ self \in Live
    /\ arg.k = "ref" => arg.id \in Live
    /\ InModel(h2)
    /\ ret.v.k # "unrep"
    /\ left' = left - 1
    /\ heap' = h2
    /\ log' = Append(log, [op |-> op, self |-> self, arg |-> arg, num |-> num,
                           before |-> heap, after |-> h2, ret |-> ret])

CallSet(o, x, y) == Call("set", o, Lit(x, y), Zero, set(heap, o, x, y), RefRet(o))

CallTranslate(o, x, y) ==
    Call("translate", o, Lit(x, y), Zero, translate(heap, o, x, y), RefRet(o))

CallMagSq(o) == Call("magSq", o, NoArg, Zero, heap, NumRet(magSq(heap, o)))

CallMag(o) == Call("mag", o, NoArg, Zero, heap, NumRet(mag(heap, o)))

CallScale(o, val) == Call("scale", o, NoArg, val, scale(heap, o, val), RefRet(o))

CallNormalize(o) == Call("normalize", o, NoArg, Zero, normalize(heap, o), RefRet(o))

CallCopy(o, arg) == Call("copy", o, arg, Zero, copy(heap, o, arg), RefRet(o))

CallClone(o, id) ==
    /\ id \notin Live
    /\ Call("clone", o, NoArg, Zero, clone(heap, o, id).heap,
            RefRet(clone(heap, o, id).ref))

CallSub(o, arg) == Call("sub", o, arg, Zero, sub(heap, o, arg), RefRet(o))

CallAdd(o, arg) == Call("add", o, arg, Zero, add(heap, o, arg), RefRet(o))

CallDot(o, arg) == Call("dot", o, arg, Zero, heap, NumRet(dot(heap, o, arg)))

CallCross(o, arg) == Call("cross", o, arg, Zero, heap, NumRet(cross(heap, o, arg)))

CallSetMag(o, m) == Call("setMag", o, NoArg, m, setMag(heap, o, m), RefRet(o))

CallSetDirection(o, dir) ==
    Call("setDirection", o, dir, Zero, setDirection(heap, o, dir), RefRet(o))

CallRotateAround(o, a, arg) ==
    Call("rotateAround", o, arg, a, rotateAround(heap, o, a, arg), RefRet(o))

CallNorm(o, p) == Call("norm", o, NoArg, p, heap, NumRet(norm(heap, o, p)))

CallAngle(v1, v2) ==
    Call("angle", v1, Ref(v2), Zero, heap, NumRet(angle(heap, v1, v2)))

CallAngle2(v1, v2) ==
    Call("angle2", v1, Ref(v2), Zero, heap, NumRet(angle2(heap, v1, v2)))

\* o.lerp(other, t): the class defines no lerp, so the call of the undefined
\* property throws a TypeError and nothing is written
CallLerp(o, other, t) ==
    /\ "lerp" \notin Methods
    /\ Call("lerp", o, other, t, heap, Throw("TypeError"))

(***************************************************************************)
(* The arguments the client draws.                                         *)
(***************************************************************************)
Grid     == {OfInt(i) : i \in (-MaxCoord)..MaxCoord}
GridVecs == {Vec(x, y) : x \in Grid, y \in Grid}
Scalars  == {Zero, OfInt(-1), OfInt(2), PInf}
Angles   == {HalfPi, Pi}
ChainScalars == {OfInt(2)}
ChainAngles  == {HalfPi}
Degrees  == {One, OfInt(2), PInf}
Factors  == {Zero, One, Fin(1, 2, 1), OfInt(2)}
Literals == {Lit(Zero, One)}

Refs(objs) == {Ref(o) : o \in objs}

StartHeap(a, b) ==
    [o \in Statics \cup Users |->
        IF o \in Statics THEN StaticInit(o) ELSE IF o = "v" THEN a ELSE b]

\* a mutating call on receiver o, with object operands among objs, scalars
\* among ks and angles among as
Mutate(o, objs, ks, as) ==
    \/ \E l \in Literals : CallSet(o, l.x, l.y)
    \/ \E l \in Literals : CallTranslate(o, l.x, l.y)
    \/ \E k \in ks : CallScale(o, k)
    \/ CallNormalize(o)
    \/ \E k \in ks : CallSetMag(o, k)
    \/ \E arg \in Refs(objs) \cup Literals : CallCopy(o, arg)
    \/ \E arg \in Refs(objs) \cup Literals : CallSub(o, arg)
    \/ \E arg \in Refs(objs) \cup Literals : CallAdd(o, arg)
    \/ \E arg \in Refs(objs) \cup Literals : CallSetDirection(o, arg)
    \/ \E a \in as, arg \in Refs(objs) \cup Literals \cup {NoArg} :
            CallRotateAround(o, a, arg)

\* a query on receiver o, with object operands among objs
Query(o, objs) ==
    \/ CallMagSq(o)
    \/ CallMag(o)
    \/ \E p \in Degrees : CallNorm(o, p)
    \/ \E arg \in Refs(objs) \cup Literals : CallDot(o, arg)
    \/ \E arg \in Refs(objs) \cup Literals : CallCross(o, arg)
    \/ \E v2 \in objs : CallAngle(o, v2)
    \/ \E v2 \in objs : CallAngle2(o, v2)

(***************************************************************************)
(* SpecCall: one call of any method on two vectors with components drawn   *)
(* from the grid, either of which may be receiver or operand.              *)
(***************************************************************************)
InitCall ==
    /\ \E a \in GridVecs, b \in GridVecs : heap = StartHeap(a, b)
    /\ log = <<>>
    /\ left = 1

NextCall ==
    \E o \in Users :
        \/ Mutate(o, Users, Scalars, Angles)
        \/ Query(o, Users)
        \/ \E other \in Refs(Users) \cup Literals, t \in Factors : CallLerp(o, other, t)
        \/ \E id \in Clones : CallClone(o, id)

SpecCall == InitCall /\ [][NextCall]_vars

(***************************************************************************)
(* Spec: a client that makes up to MaxCalls calls of any method on any     *)
(* live instance, the static constants included.                           *)
(***************************************************************************)
Init ==
    /\ heap = StartHeap(IntVec(3, 4), IntVec(1, 2))
    /\ log = <<>>
    /\ left = MaxCalls

Next ==
    \E o \in Statics \cup Users \cup Clones :
        \/ Mutate(o, Users, ChainScalars, ChainAngles)
        \/ Query(o, Users)
        \/ \E other \in Refs(Users), t \in Factors : CallLerp(o, other, t)
        \/ \E id \in Clones : CallClone(o, id)

Spec == Init /\ [][Next]_vars

(***************************************************************************)
(* SpecChain: a client that chains up to MaxCalls mutating calls and       *)
(* clones on the vectors it owns.                                          *)
(***************************************************************************)
NextChain ==
    \E o \in Users \cup Clones :
        \/ Mutate(o, Users \cup Clones, ChainScalars, ChainAngles)
        \/ \E id \in Clones : CallClone(o, id)

SpecChain == Init /\ [][NextChain]_vars

(***************************************************************************)
(* Properties.                                                             *)
(***************************************************************************)
Calls == 1..Len(log)

IsZeroVec(f) == f = Vec(Zero, Zero)

IsInteger(a) == a.k = "fin" /\ a.d = 1 /\ a.r = 1
IsIntVec(f)  == IsInteger(f.x) /\ IsInteger(f.y)

\* a is a number that is not NaN
IsNumber(a) == a.k \in {"fin", "pinf", "ninf", "acos", "rev"}

\* 0 <= a, a < 2*PI, a > PI, for a an angle: acos(c) lies in (0, PI] for
\* c in [-1, 1) and 2*PI - acos(c) in [PI, 2*PI)
AngleGeZero(a)  == a = Zero \/ IsRad(a)
AngleLtTwoPi(a) == a = Zero \/ a.k = "acos" \/ (a.k = "rev" /\ a # TwoPi)
AngleGtPi(a)    == a.k = "rev" /\ a # TwoPiMinus(Pi)

\* the larger of two integers
MaxOf(a, b) == IF a.n >= b.n THEN a ELSE b

QueryOps   == {"magSq", "mag", "dot", "cross", "norm", "angle", "angle2"}
OperandOps == {"add", "sub", "copy", "setDirection", "rotateAround"}

\* C1: whatever the client has called, the static constants hold their
\* documented values, and a rotateAround without origin rotates about (0,0)
C1_ConstantsImmutable ==
    /\ \A s \in Statics : heap[s] = StaticInit(s)
    /\ \A i \in Calls :
        log[i].op = "rotateAround" /\ log[i].arg = NoArg
            => log[i].after = rotateAround(log[i].before, log[i].self, log[i].num,
                                           Lit(Zero, Zero))

\* C2: setDirection(dir) with a non-zero dir leaves the vector along dir with
\* the magnitude it had before the call
C2_SetDirectionPreservesMagnitude ==
    \A i \in Calls :
        LET c == log[i]
            d == Fields(c.before, c.arg)
        IN  c.op = "setDirection" /\ ~IsZeroVec(d)
                => /\ magSq(c.after, c.self) = magSq(c.before, c.self)
                   /\ cross(c.after, c.self, Lit(d.x, d.y)) = Zero
                   /\ Sign(dot(c.after, c.self, Lit(d.x, d.y))) >= 0

\* normalize on the zero vector returns the receiver and writes nothing
NormalizeZeroIsNoOp(c) ==
    c.op = "normalize" /\ IsZeroVec(c.before[c.self])
        => c.after = c.before /\ c.ret = RefRet(c.self)

\* normalize on a vector of non-zero magnitude scales it by 1/mag()
NormalizeScales(c) ==
    c.op = "normalize" /\ ~NumEq(mag(c.before, c.self), Zero)
        => /\ c.after[c.self] =
                Vec(Mul(c.before[c.self].x, Div(One, mag(c.before, c.self))),
                    Mul(c.before[c.self].y, Div(One, mag(c.before, c.self))))
           /\ c.ret = RefRet(c.self)

\* C3 as stated: on the zero vector normalize is a no-op and setMag(target)
\* leaves the zero vector for every target; on a non-zero vector normalize
\* scales by 1/mag()
C3_ZeroStaysZeroForEveryTarget ==
    \A i \in Calls :
        /\ NormalizeZeroIsNoOp(log[i])
        /\ log[i].op = "setMag" /\ IsZeroVec(log[i].before[log[i].self])
            => IsZeroVec(log[i].after[log[i].self])
        /\ NormalizeScales(log[i])

\* C3 as amended: on the zero vector normalize is a no-op and setMag(target)
\* leaves the zero vector for every finite target; on a vector of non-zero
\* magnitude normalize scales by 1/mag()
C3_ZeroStaysZeroForFiniteTarget ==
    \A i \in Calls :
        /\ NormalizeZeroIsNoOp(log[i])
        /\ log[i].op = "setMag" /\ IsZeroVec(log[i].before[log[i].self])
                /\ IsFin(log[i].num)
            => IsZeroVec(log[i].after[log[i].self])
        /\ NormalizeScales(log[i])

C3_Witness ==
    \E i \in Calls :
        /\ log[i].op = "setMag"
        /\ IsZeroVec(log[i].before[log[i].self])
        /\ log[i].num = OfInt(2)
        /\ IsZeroVec(log[i].after[log[i].self])
        /\ log[i].ret = RefRet(log[i].self)

\* C4: clone returns a new instance, distinct from the receiver, with the
\* receiver's x and y, and writes no existing instance; calls made on the
\* clone afterwards leave the original as it was, and calls made on the
\* original leave the clone as it was
C4_CloneNeverAliases ==
    \A i \in Calls :
        LET c   == log[i]
            src == c.self
            dst == c.ret.id
        IN  c.op = "clone"
                => /\ c.ret.k = "ref"
                   /\ dst # src
                   /\ dst \notin DOMAIN c.before
                   /\ dst \in DOMAIN c.after
                   /\ c.after[dst] = c.before[src]
                   /\ \A o \in DOMAIN c.before : c.after[o] = c.before[o]
                   /\ (\A j \in (i + 1)..Len(log) : log[j].self = dst)
                        => heap[src] = c.before[src]
                   /\ (\A j \in (i + 1)..Len(log) : log[j].self = src)
                        => heap[dst] = c.before[src]

C4_Witness ==
    \E i \in Calls :
        /\ log[i].op = "clone"
        /\ i < Len(log)
        /\ \A j \in (i + 1)..Len(log) : log[j].self = log[i].ret.id
        /\ heap[log[i].ret.id] # log[i].before[log[i].self]
        /\ heap[log[i].self] = log[i].before[log[i].self]

\* calls i and i+1 are first and second on the same receiver with the same
\* operand, receiver and operand having integer components
InversePair(i, first, second) ==
    /\ log[i].op = first
    /\ log[i + 1].op = second
    /\ log[i + 1].self = log[i].self
    /\ log[i + 1].arg = log[i].arg
    /\ IsIntVec(log[i].before[log[i].self])
    /\ IsIntVec(Fields(log[i].before, log[i].arg))

\* the pair of calls i, i+1 returns the receiver twice and leaves it with
\* the components it had before call i
Restored(i) ==
    /\ log[i].ret = RefRet(log[i].self)
    /\ log[i + 1].ret = RefRet(log[i].self)
    /\ log[i + 1].after[log[i].self] = log[i].before[log[i].self]

\* C5 as stated: v.add(w).sub(w) and v.sub(w).add(w) leave v with its
\* original components, for every operand w
C5_AddSubInverseForEveryOperand ==
    \A i \in Calls :
        i < Len(log) /\ (InversePair(i, "add", "sub") \/ InversePair(i, "sub", "add"))
            => Restored(i)

\* C5 as amended: v.add(w).sub(w) and v.sub(w).add(w) leave v with its
\* original components, for every operand w that is not v itself
C5_AddSubInverseForOtherOperand ==
    \A i \in Calls :
        /\ i < Len(log)
        /\ InversePair(i, "add", "sub") \/ InversePair(i, "sub", "add")
        /\ log[i].arg # Ref(log[i].self)
        => Restored(i)

C5_Witness ==
    \E i \in Calls :
        /\ i < Len(log)
        /\ InversePair(i, "add", "sub")
        /\ log[i].self = "v"
        /\ log[i].arg = Ref("w")
        /\ log[i].after["v"] # log[i].before["v"]
        /\ Restored(i)

\* C6: lerp(other, t) returns the receiver and leaves it at
\* this + t * (other - this)
C6_LerpInterpolates ==
    \A i \in Calls :
        LET c == log[i]
            b == c.before[c.self]
            o == Fields(c.before, c.arg)
        IN  c.op = "lerp"
                => /\ c.ret = RefRet(c.self)
                   /\ c.after[c.self] = Vec(Add(b.x, Mul(c.num, Sub(o.x, b.x))),
                                            Add(b.y, Mul(c.num, Sub(o.y, b.y))))

\* C7: on non-negative components norm(1) is x + y, norm(2) is mag() and
\* norm(Infinity) is max(x, y)
C7_NormIsPNorm ==
    \A i \in Calls :
        LET c == log[i]
            b == c.before[c.self]
        IN  c.op = "norm" /\ IsIntVec(b) /\ Sign(b.x) >= 0 /\ Sign(b.y) >= 0
                => /\ c.num = One => c.ret.v = Add(b.x, b.y)
                   /\ c.num = OfInt(2) => c.ret.v = mag(c.before, c.self)
                   /\ c.num = PInf => c.ret.v = MaxOf(b.x, b.y)

\* v1 or v2 of call c has zero magnitude
ZeroOperand(c) ==
    \/ NumEq(mag(c.before, c.self), Zero)
    \/ NumEq(mag(c.before, c.arg.id), Zero)

\* C8: angle and angle2 return a number and never throw; the number is NaN
\* when either vector has zero magnitude and is not NaN otherwise
C8_AngleNaNOnZeroMagnitude ==
    \A i \in Calls :
        log[i].op \in {"angle", "angle2"}
            => /\ log[i].ret.k = "num"
               /\ ZeroOperand(log[i]) => log[i].ret.v = NaN
               /\ ~ZeroOperand(log[i]) => IsNumber(log[i].ret.v)

C8_Witness ==
    \E i \in Calls :
        /\ log[i].op = "angle2"
        /\ IsZeroVec(log[i].before[log[i].self])
        /\ ~IsZeroVec(log[i].before[log[i].arg.id])
        /\ log[i].ret = NumRet(NaN)

\* C9: for non-zero v1 and v2, angle2 is angle when the cross product is not
\* negative and 2*PI - angle when it is; it lies in [0, 2*PI) and exceeds PI
\* exactly when the cross product is negative; angle2(RIGHT, DOWN) is 3*PI/2
\* and angle2(RIGHT, TOP) is PI/2
C9_Angle2Oriented ==
    \A i \in Calls :
        LET c  == log[i]
            a  == angle(c.before, c.self, c.arg.id)
            cr == cross(c.before, c.self, c.arg)
            v1 == c.before[c.self]
        IN  c.op = "angle2" /\ ~ZeroOperand(c)
                => /\ ~IsNegative(cr) => c.ret.v = a
                   /\ IsNegative(cr) => c.ret.v = TwoPiMinus(a)
                   /\ AngleGeZero(c.ret.v)
                   /\ AngleLtTwoPi(c.ret.v)
                   /\ AngleGtPi(c.ret.v) <=> IsNegative(cr)
                   /\ v1 = IntVec(1, 0) /\ c.before[c.arg.id] = IntVec(0, -1)
                        => c.ret.v = ThreeHalfPi
                   /\ v1 = IntVec(1, 0) /\ c.before[c.arg.id] = IntVec(0, 1)
                        => c.ret.v = HalfPi

C9_Witness ==
    \E i \in Calls :
        /\ log[i].op = "angle2"
        /\ log[i].before[log[i].self] = IntVec(1, 0)
        /\ log[i].before[log[i].arg.id] = IntVec(0, -1)
        /\ log[i].ret = NumRet(ThreeHalfPi)

\* C10: a query writes no instance; add, sub, copy, setDirection and
\* rotateAround write no instance but the receiver
C10_OperandsNeverWritten ==
    \A i \in Calls :
        LET c == log[i]
        IN  /\ c.op \in QueryOps => c.after = c.before
            /\ c.op \in OperandOps
                => /\ DOMAIN c.after = DOMAIN c.before
                   /\ \A o \in DOMAIN c.before \ {c.self} : c.after[o] = c.before[o]

C10_Witness ==
    \E i \in Calls :
        /\ log[i].op = "setDirection"
        /\ log[i].self = "v"
        /\ log[i].arg = Ref("w")
        /\ log[i].after["v"] # log[i].before["v"]
        /\ log[i].before["w"] = IntVec(1, 2)
        /\ log[i].after["w"] = IntVec(1, 2)

=============================================================================
